---- MODULE Spec2Model ----
(***************************************************************************)
(* Model of the returns / risk-decomposition engine of                     *)
(* backend/app/libs/price_stats.py and of the balance-spread backtester    *)
(* exercised by backend/app/spread/tests.                                  *)
(*                                                                         *)
(* Floating point numbers are modelled by exact values:                    *)
(*   - a log-return produced by make_returns_df is the symbolic value      *)
(*     ln(n/d) of a reduced fraction, or one of nan, +inf, -inf;           *)
(*   - a returns cell consumed by the matrix / covariance code is an       *)
(*     integer number of return quanta, or nan;                            *)
(*   - weights, covariances and percentages are exact rationals.           *)
(* Rounding error of 64-bit floats is therefore outside the model.         *)
(***************************************************************************)
EXTENDS Integers, Sequences, FiniteSets

VARIABLES
    hist_values,     \* make_returns_df: the price series passed in
    dataframe,       \* make_returns_df: the table returned
    treasury,        \* the Treasury object: assets (symbol -> Asset) and usd_total
    hist,            \* augmented_token_hist_prices: sequence of (symbol, table), in dict iteration order
    start,           \* window start
    end,             \* window end
    result,          \* what the last call on (treasury, hist, start, end) returned or raised
    call,            \* summary of the last fill_asset_risk_contributions call on the treasury
    balances,        \* Balances passed to update_balances_with_spread
    spread_args,     \* the other arguments of update_balances_with_spread
    spread_balances  \* Balances returned by update_balances_with_spread

vars == <<hist_values, dataframe, treasury, hist, start, end, result, call,
          balances, spread_args, spread_balances>>

-----------------------------------------------------------------------------
(* Generic helpers *)

Abs(x) == IF x < 0 THEN -x ELSE x

Max(a, b) == IF a >= b THEN a ELSE b

\* F applied to the value of v, with v evaluated once.
With(v, F(_)) == CHOOSE r \in {F(x) : x \in {v}} : TRUE

RECURSIVE GCD(_, _)
GCD(a, b) == IF b = 0 THEN a ELSE GCD(b, a % b)

RECURSIVE SumSeq(_)
SumSeq(s) == IF s = <<>> THEN 0 ELSE Head(s) + SumSeq(Tail(s))

Range(s) == {s[i] : i \in DOMAIN s}

\* The sequence s with every element evaluated once.
Eager(s) == s \o <<>>

\* A rational n/d in lowest terms with d > 0 (d # 0 required).
Rat(n, d) ==
    IF n = 0 THEN [n |-> 0, d |-> 1]
    ELSE IF d = 1 THEN [n |-> n, d |-> 1]
    ELSE With(GCD(Abs(n), Abs(d)), LAMBDA g :
             IF d < 0 THEN [n |-> -(n \div g), d |-> -(d \div g)]
             ELSE [n |-> n \div g, d |-> d \div g])

-----------------------------------------------------------------------------
(* make_returns_df *)

ROLLING_WINDOW_DAYS == 7

Fnan == [k |-> "nan", n |-> 0, d |-> 1]
Fpinf == [k |-> "inf", n |-> 1, d |-> 0]
Fninf == [k |-> "inf", n |-> -1, d |-> 0]
Ffin(n, d) == LET r == Rat(n, d) IN [k |-> "fin", n |-> r.n, d |-> r.d]
Fzero == Ffin(0, 1)

\* dataframe[column_name] / dataframe[column_name].shift(periods=1), one cell:
\* float division of a price by the previous price (numpy: x/0 is +-inf, 0/0 is nan).
PriceRatio(p, prev) ==
    IF prev = 0
    THEN IF p > 0 THEN Fpinf ELSE IF p < 0 THEN Fninf ELSE Fnan
    ELSE Ffin(p, prev)

\* np.log of one cell.  A finite result is kept symbolically as ln(n/d),
\* written [k |-> "ln", n, d]; ln(1) is the number 0.
NpLog(r) ==
    IF r.k = "nan" THEN Fnan
    ELSE IF r.k = "inf" THEN (IF r.n > 0 THEN Fpinf ELSE Fnan)
    ELSE IF r.n < 0 THEN Fnan
    ELSE IF r.n = 0 THEN Fninf
    ELSE IF r.n = r.d THEN Fzero
    ELSE [k |-> "ln", n |-> r.n, d |-> r.d]

\* np.log(prices / prices.shift(1)): position 1 has no previous price.
LogReturns(prices) ==
    [t \in DOMAIN prices |->
        IF t = 1 THEN NpLog(Fnan) ELSE NpLog(PriceRatio(prices[t], prices[t - 1]))]

\* Series.replace(to_replace, value, inplace=True) on the positions from `from` on.
ReplaceFrom(col, from, to_replace, value) ==
    [t \in DOMAIN col |-> IF t >= from /\ col[t] = to_replace THEN value ELSE col[t]]

\* A variant of the replace calls below that never replaces nan.
ReplaceNanKeepAll(col) ==
    ReplaceFrom(ReplaceFrom(col, 1, Fpinf, Fzero), 1, Fninf, Fzero)

\* The three replace calls of make_returns_df, in order: +inf and -inf are
\* replaced everywhere, nan on returns.iloc[1:] only (the slice is a view of
\* the column, so the in-place replace reaches the dataframe).
CleanReturns(col) ==
    ReplaceFrom(ReplaceFrom(ReplaceFrom(col, 1, Fpinf, Fzero), 1, Fninf, Fzero),
                2, Fnan, Fzero)

\* returns.rolling(ROLLING_WINDOW_DAYS).std(ddof=0): nan until the window holds
\* ROLLING_WINDOW_DAYS non-nan values; otherwise the population standard
\* deviation of the window, kept symbolically as the window itself.
RollingStd(col) ==
    [t \in DOMAIN col |->
        IF t >= ROLLING_WINDOW_DAYS
              /\ \A u \in (t - ROLLING_WINDOW_DAYS + 1)..t : col[u].k # "nan"
        THEN [nan |-> FALSE, window |-> SubSeq(col, t - ROLLING_WINDOW_DAYS + 1, t)]
        ELSE [nan |-> TRUE, window |-> <<>>]]

make_returns_df(values) ==
    LET returns == CleanReturns(LogReturns(values))
    IN  [made |-> TRUE, price |-> values, returns |-> returns,
         std_dev |-> RollingStd(returns)]

NoDataframe == [made |-> FALSE, price |-> <<>>, returns |-> <<>>, std_dev |-> <<>>]

-----------------------------------------------------------------------------
(* Treasury (backend/app/libs/types.py is not part of the sources at hand;    *)
(* its shape is taken from its uses in price_stats.py)                        *)

\* risk_contribution of an Asset no decomposition has written yet.
NoRisk == [k |-> "none", n |-> 0, d |-> 1]

Asset(balance) == [balance |-> balance, risk_contribution |-> NoRisk]

\* treasury.get_asset(symbol): the Asset, or StopIteration when there is none.
HasAsset(t, symbol) == symbol \in DOMAIN t.assets

get_asset(t, symbol) == t.assets[symbol]

-----------------------------------------------------------------------------
(* DataFrame operations used by make_returns_matrix.                         *)
(* A price-history table is a sequence of rows [timestamp, returns]; a      *)
(* frame is [columns, rows] with rows [timestamp, cells].                   *)

Nan == [nan |-> TRUE, v |-> 0]
Num(x) == [nan |-> FALSE, v |-> x]

\* DataFrame.sort_index(): rows by ascending timestamp, stable.
RECURSIVE InsertRow(_, _)
InsertRow(sorted, row) ==
    IF sorted = <<>> THEN <<row>>
    ELSE IF Head(sorted).timestamp <= row.timestamp
         THEN <<Head(sorted)>> \o InsertRow(Tail(sorted), row)
         ELSE <<row>> \o sorted

RECURSIVE sort_index(_)
sort_index(table) ==
    IF table = <<>> THEN <<>>
    ELSE InsertRow(sort_index(SubSeq(table, 1, Len(table) - 1)), table[Len(table)])

\* .loc[start:end] on a sorted index: the rows with start <= timestamp <= end.
loc(table, s, e) ==
    SelectSeq(table, LAMBDA row : s <= row.timestamp /\ row.timestamp <= e)

\* hist_prices[["timestamp", "returns"]] after reset_index().
TimestampReturns(table) ==
    [columns |-> <<"returns">>,
     rows |-> Eager([i \in DOMAIN table |->
                  [timestamp |-> table[i].timestamp, cells |-> <<table[i].returns>>]])]

\* DataFrame.rename(columns={from: to}): columns not named `from` are kept.
rename(frame, from, to) ==
    [frame EXCEPT !.columns =
        Eager([i \in DOMAIN frame.columns |->
            IF frame.columns[i] = from THEN to ELSE frame.columns[i]])]

\* left.merge(right, on="timestamp"): inner join, in the order of the left
\* rows; a left row is repeated for every right row with its timestamp.
RECURSIVE MergeRows(_, _)
MergeRows(lrows, rrows) ==
    IF lrows = <<>> THEN <<>>
    ELSE LET l == Head(lrows)
             matches == SelectSeq(rrows, LAMBDA r : r.timestamp = l.timestamp)
         IN  Eager([i \in DOMAIN matches |->
                 [timestamp |-> l.timestamp, cells |-> l.cells \o matches[i].cells]])
             \o MergeRows(Tail(lrows), rrows)

\* A left join instead: left rows without a match are kept, padded with nan.
RECURSIVE MergeRowsLeft(_, _)
MergeRowsLeft(lrows, rrows) ==
    IF lrows = <<>> THEN <<>>
    ELSE LET l == Head(lrows)
             matches == SelectSeq(rrows, LAMBDA r : r.timestamp = l.timestamp)
         IN  (IF matches = <<>>
              THEN <<[timestamp |-> l.timestamp, cells |-> l.cells \o <<Nan>>]>>
              ELSE [i \in DOMAIN matches |->
                      [timestamp |-> l.timestamp, cells |-> l.cells \o matches[i].cells]])
             \o MergeRowsLeft(Tail(lrows), rrows)

merge_left(left, right) ==
    [columns |-> left.columns \o right.columns,
     rows |-> MergeRowsLeft(left.rows, right.rows)]

merge(left, right) ==
    [columns |-> left.columns \o right.columns,
     rows |-> MergeRows(left.rows, right.rows)]

HasColumn(frame, name) == \E i \in DOMAIN frame.columns : frame.columns[i] = name

\* The positions of the columns not named `name`, in order.
RECURSIVE KeptPositions(_, _, _)
KeptPositions(columns, name, i) ==
    IF i > Len(columns) THEN <<>>
    ELSE (IF columns[i] = name THEN <<>> ELSE <<i>>) \o KeptPositions(columns, name, i + 1)

\* DataFrame.drop(name, axis=1) of a frame that has the column.
drop(frame, name) ==
    LET keep == KeptPositions(frame.columns, name, 1)
    IN  [columns |-> Eager([i \in DOMAIN keep |-> frame.columns[keep[i]]]),
         rows |-> Eager([r \in DOMAIN frame.rows |->
                      [timestamp |-> frame.rows[r].timestamp,
                       cells |-> Eager([i \in DOMAIN keep |-> frame.rows[r].cells[keep[i]]])]])]

-----------------------------------------------------------------------------
(* make_returns_matrix *)

EmptyFrame == [columns |-> <<>>, rows |-> <<>>]

Raised(error) == [status |-> error, matrix |-> EmptyFrame]
Returned(matrix) == [status |-> "ok", matrix |-> matrix]

\* hist_prices_items: every table sorted, sliced to the window, index reset.
hist_prices_items(h, s, e) ==
    Eager([i \in DOMAIN h |->
        [symbol |-> h[i].symbol, hist_prices |-> loc(sort_index(h[i].table), s, e)]])

reducer_on_symbol_and_hist_prices(matrix, symbol_and_hist_prices) ==
    merge(matrix,
          rename(TimestampReturns(symbol_and_hist_prices.hist_prices),
                 "returns", symbol_and_hist_prices.symbol))

\* functools.reduce(reducer, items, initial), over items[i..].
RECURSIVE reduce(_, _, _)
reduce(items, i, acc) ==
    IF i > Len(items) THEN acc
    ELSE reduce(items, i + 1, reducer_on_symbol_and_hist_prices(acc, items[i]))

\* The seed of the reduction: the first item's timestamp and returns columns;
\* the rename maps a column named "return", which the frame does not have.
ReduceSeed(items) ==
    rename(TimestampReturns(items[1].hist_prices), "return", items[1].symbol)

\* Lines 54-64: the joined frame without the seed's "returns" column.
JoinedReturns(items) == drop(reduce(items, 1, ReduceSeed(items)), "returns")

\* A variant that answers an empty mapping with an empty matrix.
make_returns_matrix_empty_ok(t, h, s, e) ==
    LET items == hist_prices_items(h, s, e)
        joined == IF items = <<>> THEN EmptyFrame ELSE JoinedReturns(items)
    IN  IF HasAsset(t, "ETH") THEN Returned(joined)
        ELSE IF HasColumn(joined, "ETH") THEN Returned(drop(joined, "ETH"))
        ELSE Returned(joined)

make_returns_matrix(t, h, s, e) ==
    LET items == hist_prices_items(h, s, e)
    IN  IF items = <<>> THEN Raised("IndexError")      \* hist_prices_items[0]
        ELSE LET joined == JoinedReturns(items)
             IN  IF HasAsset(t, "ETH") THEN Returned(joined)
                 \* except StopIteration: returns_matrix.drop("ETH", ...)
                 ELSE IF HasColumn(joined, "ETH") THEN Returned(drop(joined, "ETH"))
                 ELSE Raised("KeyError")

-----------------------------------------------------------------------------
(* Exact arithmetic on the values a float can take: nan, +-inf (sign in n)  *)
(* and the rationals.  Signed zeros are not distinguished.                   *)

FInt(x) == Ffin(x, 1)

Sign(x) == IF x < 0 THEN -1 ELSE IF x > 0 THEN 1 ELSE 0

FAdd(a, b) ==
    IF a.k = "nan" \/ b.k = "nan" THEN Fnan
    ELSE IF a.k = "inf" /\ b.k = "inf" THEN (IF a.n = b.n THEN a ELSE Fnan)
    ELSE IF a.k = "inf" THEN a
    ELSE IF b.k = "inf" THEN b
    ELSE Ffin(a.n * b.d + b.n * a.d, a.d * b.d)

FMul(a, b) ==
    IF a.k = "nan" \/ b.k = "nan" THEN Fnan
    ELSE IF a.k = "inf" \/ b.k = "inf"
         THEN (IF a.n = 0 \/ b.n = 0 THEN Fnan
               ELSE IF Sign(a.n) * Sign(b.n) > 0 THEN Fpinf ELSE Fninf)
    ELSE Ffin(a.n * b.n, a.d * b.d)

FDiv(a, b) ==
    IF a.k = "nan" \/ b.k = "nan" THEN Fnan
    ELSE IF a.k = "inf"
         THEN (IF b.k = "inf" THEN Fnan
               ELSE IF Sign(a.n) * Sign(b.n) < 0 THEN Fninf ELSE a)
    ELSE IF b.k = "inf" THEN Fzero
    ELSE IF b.n = 0
         THEN (IF a.n = 0 THEN Fnan ELSE IF a.n > 0 THEN Fpinf ELSE Fninf)
    ELSE Ffin(a.n * b.d, a.d * b.n)

FAbs(a) == [a EXCEPT !.n = Abs(a.n)]

\* a <= b for finite a, b.
FLeq(a, b) == a.n * b.d <= b.n * a.d

FMax(a, b) == IF FLeq(a, b) THEN b ELSE a

RECURSIVE FSum(_)
FSum(v) == IF v = <<>> THEN Fzero ELSE FAdd(Head(v), FSum(Tail(v)))

\* numpy dot of a row vector v with the matrix m (a sequence of rows).
VecMat(v, m) ==
    Eager([j \in DOMAIN v |-> FSum(Eager([i \in DOMAIN v |-> FMul(v[i], m[i][j])]))])

\* numpy dot of two vectors.
Dot(u, v) == FSum(Eager([i \in DOMAIN u |-> FMul(u[i], v[i])]))

\* rel_tol=0.0001 of the assertion, as the fraction 1/10000.
RelTolDen == 10000

\* A variant in which two nan compare close.
isclose_nan_equal(a, b) ==
    IF a = b THEN TRUE
    ELSE IF a.k = "nan" \/ b.k = "nan" THEN FALSE
    ELSE IF a.k = "inf" \/ b.k = "inf" THEN FALSE
    ELSE FLeq(FMul(FInt(RelTolDen), FAbs(FAdd(a, FMul(FInt(-1), b)))),
              FMax(FAbs(a), FAbs(b)))

\* math.isclose(a, b, rel_tol=1/RelTolDen) (abs_tol is 0).
isclose(a, b) ==
    IF a.k = "nan" \/ b.k = "nan" THEN FALSE
    ELSE IF a = b THEN TRUE
    ELSE IF a.k = "inf" \/ b.k = "inf" THEN FALSE
    ELSE FLeq(FMul(FInt(RelTolDen), FAbs(FAdd(a, FMul(FInt(-1), b)))),
              FMax(FAbs(a), FAbs(b)))

-----------------------------------------------------------------------------
(* DataFrame.cov() *)

\* The rows of the matrix in which columns i and j both hold a number.
PairRows(m, i, j) ==
    SelectSeq(m.rows, LAMBDA r : ~r.cells[i].nan /\ ~r.cells[j].nan)

\* Sample covariance (ddof = 1) of columns i and j over the rows where both
\* are numbers; nan with fewer than two such rows.
Cov(m, i, j) ==
    With(PairRows(m, i, j), LAMBDA rows :
        LET n == Len(rows)
            sx == SumSeq(Eager([r \in DOMAIN rows |-> rows[r].cells[i].v]))
            sy == SumSeq(Eager([r \in DOMAIN rows |-> rows[r].cells[j].v]))
            sxy == SumSeq(Eager([r \in DOMAIN rows |->
                                    rows[r].cells[i].v * rows[r].cells[j].v]))
        IN  IF n < 2 THEN Fnan ELSE Ffin(n * sxy - sx * sy, n * (n - 1)))

cov(m) ==
    Eager([i \in DOMAIN m.columns |-> Eager([j \in DOMAIN m.columns |-> Cov(m, i, j)])])

\* Pearson correlation of columns i and j over the rows where both are
\* numbers, as DataFrame.corr() computes it: nan when a column does not vary;
\* otherwise kept as its sign and its square (the root is irrational).
Corr(m, i, j) ==
    LET rows == PairRows(m, i, j)
        n == Len(rows)
        sx == SumSeq([r \in DOMAIN rows |-> rows[r].cells[i].v])
        sy == SumSeq([r \in DOMAIN rows |-> rows[r].cells[j].v])
        sxy == SumSeq([r \in DOMAIN rows |-> rows[r].cells[i].v * rows[r].cells[j].v])
        sxx == SumSeq([r \in DOMAIN rows |-> rows[r].cells[i].v * rows[r].cells[i].v])
        syy == SumSeq([r \in DOMAIN rows |-> rows[r].cells[j].v * rows[r].cells[j].v])
        cxy == n * sxy - sx * sy
        vx == n * sxx - sx * sx
        vy == n * syy - sy * sy
    IN  IF n < 1 \/ vx * vy = 0 THEN [nan |-> TRUE, sign |-> 0, square |-> Rat(0, 1)]
        ELSE [nan |-> FALSE, sign |-> Sign(cxy), square |-> Rat(cxy * cxy, vx * vy)]

corr(m) ==
    [columns |-> m.columns,
     values |-> Eager([i \in DOMAIN m.columns |->
                   Eager([j \in DOMAIN m.columns |-> Corr(m, i, j)])])]

NoCorr == [columns |-> <<>>, values |-> <<>>]

-----------------------------------------------------------------------------
(* make_returns_correlations_matrix *)

make_returns_correlations_matrix(t, h, s, e) ==
    With(make_returns_matrix(t, h, s, e), LAMBDA returns_matrix :
        IF returns_matrix.status # "ok"
        THEN [status |-> returns_matrix.status, corr |-> NoCorr]
        ELSE [status |-> "ok", corr |-> corr(returns_matrix.matrix)])

-----------------------------------------------------------------------------
(* fill_asset_risk_contributions *)

\* current_balances[symbol] / treasury.usd_total for every matrix column.
weights(t, columns) ==
    Eager([i \in DOMAIN columns |->
        FDiv(FInt(t.assets[columns[i]].balance), FInt(t.usd_total))])

\* weights.dot(cov_matrix)
weights_dot_cov(w, c) == VecMat(w, c)

\* weights.dot(cov_matrix).dot(weights.T): the portfolio variance; std_dev is
\* its square root.
variance(w, c) == Dot(weights_dot_cov(w, c), w)

\* np.sqrt(variance) is nan for a nan or negative variance, +inf for +inf,
\* 0 for 0, and irrational otherwise ("pos": the model keeps the variance).
SigmaKind(v) ==
    IF v.k = "nan" THEN "nan"
    ELSE IF v.k = "inf" THEN (IF v.n > 0 THEN "inf" ELSE "nan")
    ELSE IF v.n < 0 THEN "nan"
    ELSE IF v.n = 0 THEN "zero"
    ELSE "pos"

\* std_dev[0][0] where it is one of nan, +inf, 0.
SigmaValue(v) ==
    IF SigmaKind(v) = "inf" THEN Fpinf ELSE IF SigmaKind(v) = "zero" THEN Fzero ELSE Fnan

\* weights.dot(cov_matrix) / std_dev[0][0], given wc = weights.dot(cov_matrix)
\* and the variance v.  For a positive finite std_dev the entries are kept in
\* units of 1/std_dev.
marginal_contributions(wc, v) ==
    IF SigmaKind(v) = "pos" THEN wc
    ELSE Eager([i \in DOMAIN wc |-> FDiv(wc[i], SigmaValue(v))])

\* np.multiply(marginal_contributions, weights), same units.
component_contributions(m, w) == Eager([i \in DOMAIN w |-> FMul(m[i], w[i])])

\* np.sum(component_contributions), same units.
summed_component_contributions(comp) == FSum(comp)

\* The assertion compiled away (python -O).
assertion_skipped(summed, v) == TRUE

\* isclose(summed_component_contributions, std_dev[0][0], rel_tol=0.0001).
\* For a positive finite std_dev both arguments are multiplied by std_dev,
\* which leaves a relative comparison unchanged: isclose(S / sd, sd) is
\* isclose(S, variance).
assertion_holds(summed, v) ==
    IF SigmaKind(v) = "pos" THEN isclose(summed, v)
    ELSE isclose(summed, SigmaValue(v))

\* component_contributions / std_dev[0][0].
component_percentages(comp, v) ==
    Eager([i \in DOMAIN comp |->
        FDiv(comp[i], IF SigmaKind(v) = "pos" THEN v ELSE SigmaValue(v))])

\* A variant that resets the assets that are no column of the matrix.
write_risk_contributions_all(t, columns, percentages) ==
    [t EXCEPT !.assets =
        [sym \in DOMAIN t.assets |->
            IF \E i \in DOMAIN columns : columns[i] = sym
            THEN [t.assets[sym] EXCEPT !.risk_contribution =
                     percentages[CHOOSE i \in DOMAIN columns : columns[i] = sym]]
            ELSE [t.assets[sym] EXCEPT !.risk_contribution = Fzero]]]

\* for symbol, percentage in zip(columns, percentages): asset.risk_contribution = percentage
write_risk_contributions(t, columns, percentages) ==
    [t EXCEPT !.assets =
        [sym \in DOMAIN t.assets |->
            IF \E i \in DOMAIN columns : columns[i] = sym
            THEN [t.assets[sym] EXCEPT !.risk_contribution =
                     percentages[CHOOSE i \in DOMAIN columns : columns[i] = sym]]
            ELSE t.assets[sym]]]

FillRaised(t, error, columns) ==
    [status |-> error, treasury |-> t, columns |-> columns,
     summed |-> Fnan, variance |-> Fnan]

\* Lines 96-115, given the matrix and the weights.  Each With is one
\* assignment of the function body.
decompose(t, matrix, w) ==
    With(cov(matrix), LAMBDA c :
    With(weights_dot_cov(w, c), LAMBDA wc :
    With(Dot(wc, w), LAMBDA v :
    With(marginal_contributions(wc, v), LAMBDA m :
    With(component_contributions(m, w), LAMBDA comp :
    With(summed_component_contributions(comp), LAMBDA summed :
        IF ~assertion_holds(summed, v)
        THEN [FillRaised(t, "AssertionError", matrix.columns) EXCEPT
                 !.summed = summed, !.variance = v]
        ELSE [status |-> "ok",
              treasury |-> write_risk_contributions(
                               t, matrix.columns, component_percentages(comp, v)),
              columns |-> matrix.columns,
              summed |-> summed,
              variance |-> v]))))))

fill_asset_risk_contributions(t, h, s, e) ==
    With(make_returns_matrix(t, h, s, e), LAMBDA returns_matrix :
        IF returns_matrix.status # "ok" THEN FillRaised(t, returns_matrix.status, <<>>)
        \* current_balances[symbol] for a column that is no asset
        ELSE IF \E i \in DOMAIN returns_matrix.matrix.columns :
                    ~HasAsset(t, returns_matrix.matrix.columns[i])
             THEN FillRaised(t, "KeyError", returns_matrix.matrix.columns)
        ELSE With(weights(t, returns_matrix.matrix.columns), LAMBDA w :
                 decompose(t, returns_matrix.matrix, w)))

-----------------------------------------------------------------------------
(* Bounds and input sets *)

MaxLen == 8          \* longest price series given to make_returns_df
MaxT == 3            \* timestamps of a request are 1..MaxT
MaxDay == 4          \* timestamps of the price histories a Treasury is decomposed on are 1..MaxDay
MaxDate == 3         \* dates of the balance series are 1..MaxDate

PriceVals == {-1, 0, 1, 2}
Timestamps == 1..MaxT
Symbols == {"A", "B", "ETH"}

SeqsUpTo(S, n) == UNION {[1..k -> S] : k \in 0..n}

\* Values of the variables a specification does not use.
NoTreasury == [assets |-> <<>>, usd_total |-> 0]
NoResult == [op |-> "none", status |-> "none", matrix |-> EmptyFrame, corr |-> NoCorr]
NoCall == [op |-> "none", status |-> "none", columns |-> <<>>, summed |-> Fnan,
           variance |-> Fnan]
NoBalances == <<>>
NoSpreadArgs == [source |-> "", target |-> "", pct |-> 0, start_date |-> 0, end_date |-> 0]

-----------------------------------------------------------------------------
(* Specification of make_returns_df: every price series up to MaxLen *)

InitReturns ==
    /\ hist_values \in SeqsUpTo(PriceVals, MaxLen)
    /\ dataframe = NoDataframe
    /\ treasury = NoTreasury /\ hist = <<>> /\ start = 0 /\ end = 0
    /\ result = NoResult /\ call = NoCall
    /\ balances = NoBalances /\ spread_args = NoSpreadArgs /\ spread_balances = NoBalances

MakeReturnsDf ==
    /\ ~dataframe.made
    /\ dataframe' = make_returns_df(hist_values)
    /\ UNCHANGED <<hist_values, treasury, hist, start, end, result, call,
                   balances, spread_args, spread_balances>>

NextReturns == MakeReturnsDf

SpecReturns == InitReturns /\ [][NextReturns]_vars

\* C7: position 0 of the returns column is nan; every later position t holds
\* ln(price[t]/price[t-1]) when that is finite and 0 when it is +inf, -inf or
\* nan; a constant or all-zero series has 0 at every later position.
C7_ReturnsColumn ==
    dataframe.made =>
        /\ Len(dataframe.returns) = Len(hist_values)
        /\ \A t \in DOMAIN hist_values :
              LET r == dataframe.returns[t]
                  p == hist_values[t]
                  q == hist_values[t - 1]
              IN  IF t = 1 THEN r = Fnan
                  ELSE /\ (p > 0 /\ q > 0 /\ p # q) => r = [k |-> "ln", n |-> Rat(p, q).n, d |-> Rat(p, q).d]
                       /\ (p < 0 /\ q < 0 /\ p # q) => r = [k |-> "ln", n |-> Rat(p, q).n, d |-> Rat(p, q).d]
                       /\ ~((p > 0 /\ q > 0 /\ p # q) \/ (p < 0 /\ q < 0 /\ p # q)) => r = Fzero
        /\ (\A t \in DOMAIN hist_values : hist_values[t] = hist_values[1])
              => \A t \in DOMAIN hist_values : t >= 2 => dataframe.returns[t] = Fzero

\* An all-zero series of several prices (0/0 at every later position) and a
\* series with a sign change (log of a negative ratio) have been converted.
C7_Witness ==
    /\ dataframe.made
    /\ Len(hist_values) >= 3
    /\ hist_values[1] = 0 /\ hist_values[2] = 0
    /\ hist_values[3] = -1
    /\ dataframe.returns[2] = Fzero

-----------------------------------------------------------------------------
(* Specification of the three entry points of price_stats.py on one request: *)
(* a Treasury, a price-history mapping of at most two assets whose tables    *)
(* may be unsorted and may lack timestamps, and a window.                    *)

SymbolCode(sym) == IF sym = "A" THEN 1 ELSE IF sym = "B" THEN 2 ELSE 3

\* The returns of asset sym at timestamp t: a different number in every cell.
CellValue(sym, t) == Num(SymbolCode(sym) * 10 + t)

\* Timestamp columns of a table: any set of timestamps, ascending or descending.
TimestampOrders ==
    {q \in SeqsUpTo(Timestamps, MaxT) :
        \/ \A i \in 1..(Len(q) - 1) : q[i] < q[i + 1]
        \/ \A i \in 1..(Len(q) - 1) : q[i] > q[i + 1]}

TableOf(sym, q) ==
    [i \in DOMAIN q |-> [timestamp |-> q[i], returns |-> CellValue(sym, q[i])]]

KeySequences ==
    {ks \in SeqsUpTo(Symbols, 2) : \A i, j \in DOMAIN ks : ks[i] = ks[j] => i = j}

HistInputs ==
    UNION {{[i \in DOMAIN ks |-> [symbol |-> ks[i], table |-> TableOf(ks[i], qs[i])]] :
               qs \in [DOMAIN ks -> TimestampOrders]} : ks \in KeySequences}

MkTreasury(bal, total) ==
    [assets |-> [sym \in DOMAIN bal |-> Asset(bal[sym])], usd_total |-> total]

MatrixTreasuries ==
    {MkTreasury([sym \in {"A", "B", "ETH"} |-> SymbolCode(sym)], 6),
     MkTreasury([sym \in {"A"} |-> SymbolCode(sym)], 1)}

InitMatrix ==
    /\ treasury \in MatrixTreasuries
    /\ hist \in HistInputs
    /\ start \in {1, 2}
    /\ end \in {MaxT - 1, MaxT}
    /\ result = NoResult
    /\ call = NoCall
    /\ hist_values = <<>> /\ dataframe = NoDataframe
    /\ balances = NoBalances /\ spread_args = NoSpreadArgs /\ spread_balances = NoBalances

MakeReturnsMatrix ==
    /\ LET r == make_returns_matrix(treasury, hist, start, end)
       IN  result' = [op |-> "matrix", status |-> r.status, matrix |-> r.matrix,
                      corr |-> NoCorr]
    /\ UNCHANGED <<hist_values, dataframe, treasury, hist, start, end, call,
                   balances, spread_args, spread_balances>>

MakeReturnsCorrelationsMatrix ==
    /\ LET r == make_returns_correlations_matrix(treasury, hist, start, end)
       IN  result' = [op |-> "corr", status |-> r.status, matrix |-> EmptyFrame,
                      corr |-> r.corr]
    /\ UNCHANGED <<hist_values, dataframe, treasury, hist, start, end, call,
                   balances, spread_args, spread_balances>>

FillOnRequest ==
    /\ LET r == fill_asset_risk_contributions(treasury, hist, start, end)
       IN  /\ result' = [op |-> "fill", status |-> r.status, matrix |-> EmptyFrame,
                         corr |-> NoCorr]
           /\ treasury' = r.treasury
    /\ UNCHANGED <<hist_values, dataframe, hist, start, end, call,
                   balances, spread_args, spread_balances>>

NextMatrix ==
    \/ MakeReturnsMatrix
    \/ MakeReturnsCorrelationsMatrix
    \/ FillOnRequest

SpecMatrix == InitMatrix /\ [][NextMatrix]_vars

MappingSymbols(h) == {h[i].symbol : i \in DOMAIN h}

\* The mapping's symbols in iteration order, without sym.
RECURSIVE SymbolsWithout(_, _)
SymbolsWithout(h, sym) ==
    IF h = <<>> THEN <<>>
    ELSE (IF Head(h).symbol = sym THEN <<>> ELSE <<Head(h).symbol>>)
         \o SymbolsWithout(Tail(h), sym)

\* C3: for a non-empty mapping make_returns_matrix returns normally, with the
\* mapping's symbols in iteration order as columns, ETH removed exactly when
\* ETH is in the mapping and the Treasury has no ETH asset.
C3_ColumnsAndEthCarveOut ==
    (result.op = "matrix" /\ hist # <<>>) =>
        /\ result.status = "ok"
        /\ result.matrix.columns =
              IF "ETH" \in MappingSymbols(hist) /\ ~HasAsset(treasury, "ETH")
              THEN SymbolsWithout(hist, "ETH")
              ELSE SymbolsWithout(hist, "")

\* The timestamps inside the window that every table of the mapping holds.
CommonTimestamps(h, s, e) ==
    {t \in Timestamps :
        /\ s <= t /\ t <= e
        /\ \A i \in DOMAIN h : \E r \in DOMAIN h[i].table : h[i].table[r].timestamp = t}

\* The cell of matrix m in the row of timestamp t and the column of sym.
CellsAt(m, t, sym) ==
    {m.rows[r].cells[c] : r \in {x \in DOMAIN m.rows : m.rows[x].timestamp = t},
                          c \in {y \in DOMAIN m.columns : m.columns[y] = sym}}

RowTimestamps(m) == [r \in DOMAIN m.rows |-> m.rows[r].timestamp]

IterationOrders(h) ==
    {[i \in DOMAIN h |-> h[f[i]]] :
        f \in {g \in [DOMAIN h -> DOMAIN h] : \A i, j \in DOMAIN h : g[i] = g[j] => i = j}}

\* C4: the rows of the returned matrix are the timestamps of the window that
\* occur in every table, each once; every cell is the returns value its table
\* holds at that timestamp; rows and cells are the same for every iteration
\* order of the mapping.
C4_RowsAreCommonTimestamps ==
    (result.op = "matrix" /\ result.status = "ok") =>
        LET m == result.matrix
            common == CommonTimestamps(hist, start, end)
        IN  /\ Range(RowTimestamps(m)) = common
            /\ Len(m.rows) = Cardinality(common)
            /\ \A r \in DOMAIN m.rows : \A c \in DOMAIN m.columns :
                  m.rows[r].cells[c] = CellValue(m.columns[c], m.rows[r].timestamp)
            /\ \A h2 \in IterationOrders(hist) :
                  LET r2 == make_returns_matrix(treasury, h2, start, end)
                  IN  /\ r2.status = "ok"
                      /\ RowTimestamps(r2.matrix) = RowTimestamps(m)
                      /\ \A t \in common : \A sym \in Symbols :
                            CellsAt(r2.matrix, t, sym) = CellsAt(m, t, sym)

\* A matrix of two assets whose tables are sorted differently and share only
\* some timestamps of the window.
C4_Witness ==
    /\ result.op = "matrix" /\ result.status = "ok"
    /\ Len(hist) = 2
    /\ Len(result.matrix.columns) = 2
    /\ Len(hist[1].table) = MaxT
    /\ Len(hist[2].table) = 2
    /\ hist[1].table[1].timestamp > hist[1].table[2].timestamp
    /\ Len(result.matrix.rows) = 1

\* C5: a call with an empty mapping raises at the seed of the reduction
\* (hist_prices_items[0]), returns nothing and leaves the Treasury as it was,
\* through each of the three entry points.
C5_EmptyMappingFails ==
    [][hist = <<>> =>
          /\ result'.status = "IndexError"
          /\ result'.matrix = EmptyFrame
          /\ result'.corr = NoCorr
          /\ treasury' = treasury]_vars

C5_Witness ==
    /\ hist = <<>>
    /\ result.op = "fill"
    /\ result.status = "IndexError"

-----------------------------------------------------------------------------
(* Specification of repeated decompositions of one Treasury: every call     *)
(* comes with its own price-history mapping and window.  The tables are as  *)
(* make_returns_df leaves them: the first row's returns is nan.             *)

\* The returns of a table of the given pattern at timestamp t.
PatternValue(p, t) == IF p = "flat" THEN 0 ELSE IF p = "up" THEN t ELSE t % 2

\* A table that starts at timestamp `first` and runs to MaxDay.
RiskTable(first, p) ==
    [i \in 1..(MaxDay - first + 1) |->
        [timestamp |-> first + i - 1,
         returns |-> IF i = 1 THEN Nan ELSE Num(PatternValue(p, first + i - 1))]]

\* The tables a mapping may hold for a symbol; <<>> stands for no entry.
HistoryChoices(sym) ==
    {<<>>} \cup
    {RiskTable(first, p) :
        first \in IF sym = "ETH" THEN {1} ELSE {1, 2},
        p \in IF sym = "A" THEN {"up", "flat"}
              ELSE IF sym = "B" THEN {"alt"} ELSE {"up"}}

\* The mapping iterates A, ETH, B.
MappingOf(a, eth, b) ==
    (IF a = <<>> THEN <<>> ELSE <<[symbol |-> "A", table |-> a]>>)
    \o (IF eth = <<>> THEN <<>> ELSE <<[symbol |-> "ETH", table |-> eth]>>)
    \o (IF b = <<>> THEN <<>> ELSE <<[symbol |-> "B", table |-> b]>>)

RiskMappings ==
    {MappingOf(a, eth, b) :
        a \in HistoryChoices("A"), eth \in HistoryChoices("ETH"),
        b \in HistoryChoices("B")}

\* Windows: all days, all but the first, all but the last.
RiskWindows == {<<1, MaxDay>>, <<2, MaxDay>>, <<1, MaxDay - 1>>}

BalancesOf(a, eth, b) ==
    [sym \in (IF a = 0 THEN {} ELSE {"A"}) \cup (IF eth = 0 THEN {} ELSE {"ETH"})
              \cup (IF b = 0 THEN {} ELSE {"B"}) |->
        IF sym = "A" THEN a ELSE IF sym = "ETH" THEN eth ELSE b]

\* Treasuries holding A, with or without ETH and B, of a positive total; and
\* treasuries holding A and B whose total is zero or negative.
RiskTreasuries ==
    {MkTreasury(BalancesOf(1, eth, b), 3) : eth \in {0, 1}, b \in {0, 2}}
    \cup {MkTreasury(BalancesOf(1, eth, 2), total) : eth \in {0, 1}, total \in {-3, 0}}

InitRisk ==
    /\ treasury \in RiskTreasuries
    /\ call = NoCall
    /\ hist = <<>> /\ start = 0 /\ end = 0 /\ result = NoResult
    /\ hist_values = <<>> /\ dataframe = NoDataframe
    /\ balances = NoBalances /\ spread_args = NoSpreadArgs /\ spread_balances = NoBalances

FillAssetRiskContributions(h, s, e) ==
    /\ call.op = "none"
    /\ LET r == fill_asset_risk_contributions(treasury, h, s, e)
       IN  /\ treasury' = r.treasury
           /\ call' = [op |-> "fill", status |-> r.status, columns |-> r.columns,
                       summed |-> r.summed, variance |-> r.variance]
    /\ UNCHANGED <<hist_values, dataframe, hist, start, end, result,
                   balances, spread_args, spread_balances>>

\* The caller takes the outcome of the call; the Treasury stays as the call left it.
TakeOutcome ==
    /\ call.op = "fill"
    /\ call' = NoCall
    /\ UNCHANGED <<hist_values, dataframe, treasury, hist, start, end, result,
                   balances, spread_args, spread_balances>>

NextRisk ==
    \/ \E h \in RiskMappings, w \in RiskWindows :
          FillAssetRiskContributions(h, w[1], w[2])
    \/ TakeOutcome

SpecRisk == InitRisk /\ [][NextRisk]_vars

\* The risk_contribution values of the assets named by the columns, summed.
SumOfRiskContributions(t, columns) ==
    FSum([i \in DOMAIN columns |-> t.assets[columns[i]].risk_contribution])

\* The summed component contributions equal std_dev within the relative
\* tolerance; summed is in units of 1/std_dev and v is std_dev squared.
SumMatchesSigma(summed, v) ==
    /\ summed.k = "fin" /\ v.k = "fin" /\ v.n >= 0
    /\ RelTolDen * Abs(summed.n * v.d - v.n * summed.d)
          <= Max(Abs(summed.n) * v.d, v.n * summed.d)
    /\ v.n = 0 => summed.n = 0

\* C1 as claimed: whenever a call on a Treasury of positive total returns
\* normally, the component contributions sum to std_dev and the
\* risk_contribution values of the matrix columns sum to 1.
C1_Original ==
    (call.op = "fill" /\ call.status = "ok" /\ treasury.usd_total > 0) =>
        /\ SumMatchesSigma(call.summed, call.variance)
        /\ SumOfRiskContributions(treasury, call.columns) = FInt(1)

\* C1 as amended: the same for a returns matrix of at least one column; a
\* matrix without columns (an ETH-only mapping, no ETH asset) returns
\* normally with std_dev 0 and writes nothing.
C1_ContributionsSumToOne ==
    (call.op = "fill" /\ call.status = "ok" /\ treasury.usd_total > 0) =>
        /\ SumMatchesSigma(call.summed, call.variance)
        /\ call.columns # <<>> =>
              SumOfRiskContributions(treasury, call.columns) = FInt(1)
        /\ call.columns = <<>> => call.variance = Fzero

\* A successful call on a Treasury holding A, B and ETH with a matrix of the
\* columns A and B only: ETH is an asset outside the matrix.
C1_Witness ==
    /\ call.op = "fill" /\ call.status = "ok" /\ treasury.usd_total > 0
    /\ call.columns = <<"A", "B">>
    /\ HasAsset(treasury, "ETH")
    /\ treasury.assets["A"].risk_contribution.k = "fin"
    /\ treasury.assets["A"].risk_contribution.n # 0
    /\ treasury.assets["B"].risk_contribution.n # 0

\* C2: a call on a Treasury whose usd_total is zero or negative is rejected
\* with a division-by-zero error and no risk_contribution is ever written.
C2_NonPositiveTotalRejected ==
    (call.op = "fill" /\ treasury.usd_total <= 0) =>
        /\ call.status = "ZeroDivisionError"
        /\ \A sym \in DOMAIN treasury.assets :
              treasury.assets[sym].risk_contribution = NoRisk

\* C6: a call that reaches the check with a sum that does not match std_dev
\* (nan, a zero or negative variance under at least one column, or a
\* difference beyond the tolerance) raises and writes nothing; the Treasury
\* changes only in a call whose check passed.
C6_MismatchAborts ==
    [][call'.op = "fill" =>
          /\ (call'.status \in {"ok", "AssertionError"}
                 /\ ~SumMatchesSigma(call'.summed, call'.variance))
                => (call'.status = "AssertionError" /\ treasury' = treasury)
          /\ (call'.status \in {"ok", "AssertionError"} /\ call'.columns # <<>>
                 /\ (call'.variance.k # "fin" \/ call'.variance.n <= 0))
                => (call'.status = "AssertionError" /\ treasury' = treasury)
          /\ treasury' # treasury
                => (call'.status = "ok"
                    /\ SumMatchesSigma(call'.summed, call'.variance))]_vars

\* A call aborted on a variance of 0 under a non-empty matrix, on a Treasury
\* an earlier call had written.
C6_Witness ==
    /\ call.op = "fill" /\ call.status = "AssertionError"
    /\ call.columns = <<"A">>
    /\ call.variance = Fzero
    /\ treasury.assets["A"].risk_contribution.k = "fin"

\* C10 as claimed: after a successful call every Asset of the Treasury has
\* been written by that call.
C10_Original ==
    (call.op = "fill" /\ call.status = "ok") =>
        \A sym \in DOMAIN treasury.assets : sym \in Range(call.columns)

\* C10 as amended: a successful call writes the risk_contribution of exactly
\* the Assets named by the columns of its returns matrix; every other Asset
\* keeps the value it had before the call.
C10_ColumnsOverwritten ==
    [][(call'.op = "fill" /\ call'.status = "ok") =>
          \A sym \in DOMAIN treasury.assets :
              IF sym \in Range(call'.columns)
              THEN treasury'.assets[sym].risk_contribution.k = "fin"
              ELSE treasury'.assets[sym].risk_contribution
                      = treasury.assets[sym].risk_contribution]_vars

\* A successful call with the single column A on a Treasury whose asset B
\* still carries the value an earlier call wrote.
C10_Witness ==
    /\ call.op = "fill" /\ call.status = "ok"
    /\ call.columns = <<"A">>
    /\ HasAsset(treasury, "B")
    /\ treasury.assets["B"].risk_contribution.k = "fin"
    /\ treasury.assets["A"].risk_contribution = FInt(1)

-----------------------------------------------------------------------------
(* update_balances_with_spread (backend/app/spread/actions.py is not part of *)
(* the sources at hand: the operation follows the contract of the          *)
(* Balance-Spread Backtester and the fixtures of its tests).                 *)
(* A balance series is [first, values]: one value per day from `first` on.   *)

Series(first, values) == [first |-> first, values |-> values]

LastDate(ser) == ser.first + Len(ser.values) - 1

HasValueAt(ser, t) == ser.first <= t /\ t <= LastDate(ser)

ValueAt(ser, t) == ser.values[t - ser.first + 1]

\* Swap amount = source balance at start_date * pct / 100.
SwapAmount(source, pct, start_date) ==
    FMul(ValueAt(source, start_date), Ffin(pct, 100))

\* A variant that scales by 1 - pct/100 on the start date only.
SpreadSourceStartOnly(source, pct, start_date, end_date) ==
    Series(start_date,
           [i \in 1..(end_date - start_date + 1) |->
               IF i = 1
               THEN FMul(ValueAt(source, start_date + i - 1), Ffin(100 - pct, 100))
               ELSE ValueAt(source, start_date + i - 1)])

\* The source series over the window, scaled by 1 - pct/100.
SpreadSource(source, pct, start_date, end_date) ==
    Series(start_date,
           [i \in 1..(end_date - start_date + 1) |->
               FMul(ValueAt(source, start_date + i - 1), Ffin(100 - pct, 100))])

\* A variant that replaces the target's balance by the swapped amount.
SpreadTargetReplacing(amount, has_target, target, start_date, end_date) ==
    Series(start_date,
           [i \in 1..(end_date - start_date + 1) |->
               LET t == start_date + i - 1
                   anchor == Max(target.first, start_date)
               IN  IF ~has_target \/ t < anchor THEN amount
                   ELSE FMul(amount,
                             FDiv(ValueAt(target, t), ValueAt(target, anchor)))])

\* The target series over the window: the swapped amount, held flat until
\* the target has a balance of its own, then added to that balance and
\* carried at the target's own rate of return.
SpreadTarget(amount, has_target, target, start_date, end_date) ==
    Series(start_date,
           [i \in 1..(end_date - start_date + 1) |->
               LET t == start_date + i - 1
                   anchor == Max(target.first, start_date)
               IN  IF ~has_target \/ t < anchor THEN amount
                   ELSE FMul(FAdd(amount, ValueAt(target, anchor)),
                             FDiv(ValueAt(target, t), ValueAt(target, anchor)))])

ZeroSeries(start_date, end_date) ==
    Series(start_date, [i \in 1..(end_date - start_date + 1) |-> Fzero])

update_balances_with_spread(bal, source, target, pct, start_date, end_date) ==
    LET has_target == target \in DOMAIN bal
        target_series == IF has_target THEN bal[target] ELSE ZeroSeries(start_date, end_date)
        swapped == HasValueAt(bal[source], start_date)
    IN  [sym \in DOMAIN bal \cup {target} |->
            IF sym = source
            THEN (IF swapped THEN SpreadSource(bal[source], pct, start_date, end_date)
                  ELSE bal[source])
            ELSE IF sym = target
            THEN (IF swapped
                  THEN SpreadTarget(SwapAmount(bal[source], pct, start_date),
                                    has_target, target_series, start_date, end_date)
                  ELSE ZeroSeries(start_date, end_date))
            ELSE bal[sym]]

-----------------------------------------------------------------------------
(* Specification of the backtester: balances of GVT (the source), of USDC   *)
(* (the target, possibly without a series) and of DAI, with the numbers of  *)
(* the tests.                                                                *)

Dates == 1..MaxDate

\* Series that start on `first` and run to MaxDate, with values from vals.
SeriesFrom(first, vals) ==
    {Series(first, [i \in 1..(MaxDate - first + 1) |-> FInt(v[i])]) :
        v \in [1..(MaxDate - first + 1) -> vals]}

SourceSeries == SeriesFrom(1, {123, 246}) \cup SeriesFrom(2, {123, 246})

TargetSeries == UNION {SeriesFrom(first, {10, 20}) : first \in Dates}

BalancesInputs ==
    {[sym \in {"GVT", "DAI"} |-> IF sym = "GVT" THEN src ELSE Series(1, <<FInt(5)>>)] :
        src \in SourceSeries}
    \cup
    {[sym \in {"GVT", "DAI", "USDC"} |->
         IF sym = "GVT" THEN src ELSE IF sym = "USDC" THEN tgt ELSE Series(1, <<FInt(5)>>)] :
        src \in SourceSeries, tgt \in TargetSeries}

InitSpread ==
    /\ balances \in BalancesInputs
    /\ spread_args \in [source : {"GVT"}, target : {"USDC"}, pct : {0, 20, 100},
                        start_date : {1, 2}, end_date : {MaxDate}]
    /\ spread_balances = NoBalances
    /\ treasury = NoTreasury /\ hist = <<>> /\ start = 0 /\ end = 0
    /\ result = NoResult /\ call = NoCall
    /\ hist_values = <<>> /\ dataframe = NoDataframe

UpdateBalancesWithSpread ==
    /\ spread_balances = NoBalances
    /\ spread_balances' =
          update_balances_with_spread(balances, spread_args.source, spread_args.target,
                                      spread_args.pct, spread_args.start_date,
                                      spread_args.end_date)
    /\ UNCHANGED <<hist_values, dataframe, treasury, hist, start, end, result, call,
                   balances, spread_args>>

NextSpread == UpdateBalancesWithSpread

SpecSpread == InitSpread /\ [][NextSpread]_vars

Done == spread_balances # NoBalances

Source == balances[spread_args.source]
NewSource == spread_balances[spread_args.source]
NewTarget == spread_balances[spread_args.target]
StartDate == spread_args.start_date

\* Equality of two floats: nan equals nothing.
FEq(a, b) == a.k # "nan" /\ b.k # "nan" /\ a = b

\* The target's original balance at start_date, 0 when it has none.
TargetAtStart ==
    IF spread_args.target \in DOMAIN balances
          /\ HasValueAt(balances[spread_args.target], StartDate)
    THEN ValueAt(balances[spread_args.target], StartDate)
    ELSE Fzero

\* C8 as claimed: when the source has a value at start_date, the new source
\* and target balances at start_date add up to the source's balance there.
C8_Original ==
    (Done /\ HasValueAt(Source, StartDate)) =>
        FEq(FAdd(ValueAt(NewSource, StartDate), ValueAt(NewTarget, StartDate)),
            ValueAt(Source, StartDate))

\* C8 as amended: they add up to the source's balance plus the balance the
\* target already had at start_date (0 when it had none).
C8_ConservationAtStart ==
    (Done /\ HasValueAt(Source, StartDate)) =>
        FEq(FAdd(ValueAt(NewSource, StartDate), ValueAt(NewTarget, StartDate)),
            FAdd(ValueAt(Source, StartDate), TargetAtStart))

\* The fixture of test_token_to_existing_usdc: 123 + 10 = 133 at the start.
C8_Witness ==
    /\ Done
    /\ spread_args.pct = 20 /\ StartDate = 1
    /\ Source.first = 1
    /\ ValueAt(Source, 1) = FInt(123)
    /\ TargetAtStart = FInt(10)
    /\ ValueAt(NewTarget, 1) = Ffin(173, 5)
    /\ ValueAt(NewSource, 1) = Ffin(492, 5)

\* The adjacent dates of the window on which both series have a value.
AdjacentDates == {t \in Dates : t - 1 >= StartDate /\ HasValueAt(NewSource, t - 1)
                                  /\ HasValueAt(Source, t - 1) /\ t <= spread_args.end_date}

NoSwapCase == Source.first > StartDate

NoSwapIsNoOp ==
    NoSwapCase =>
        /\ NewSource = Source
        /\ \A t \in StartDate..spread_args.end_date : ValueAt(NewTarget, t) = Fzero

====
